---- MODULE Spec2Model ----
(***************************************************************************)
(* State-machine model of the simulation resources of the repository:      *)
(*   src/simulation/store.py     Store    (bounded FIFO store)             *)
(*   src/simulation/conveyor.py  Store    (conveyor: capacity, spacing,    *)
(*                                         transport duration)             *)
(*   src/simulation/test_yield.py Base / Order  (worker pool of a node)    *)
(* Both classes derive from simpy's BaseResource and their requests from   *)
(* simpy's Event.  What the model takes from simpy is the event protocol   *)
(* the source relies on: succeed() marks an event triggered and schedules  *)
(* it at the current time; the environment processes scheduled events in   *)
(* insertion order and runs each event's callbacks in registration order;  *)
(* simulated time only advances when no event of the current instant is    *)
(* left.  An exception that escapes an operation ends the run: `err`       *)
(* records it and the state is left as the code had mutated it so far.     *)
(***************************************************************************)
EXTENDS Integers, Sequences, FiniteSets, TLC

VARIABLES
    res,                  \* which class was constructed: "none", "store", "conveyor"
    capacity,             \* BaseResource._capacity
    length,               \* conveyor.py Store.length
    speed,                \* conveyor.py Store.speed
    distance,             \* conveyor.py Store.distance
    now,                  \* Environment.now
    reqs,                 \* every request object created so far, by creation order
    items,                \* Store.items
    processing_queue,     \* conveyor.py Store.processing_queue
    ready_queue,          \* conveyor.py Store.ready_queue
    put_queue,            \* BaseResource.put_queue
    get_queue,            \* BaseResource.get_queue
    peek_queue,           \* Store.peek_queue
    get_triggered_queue,  \* Store.get_triggered_queue
    pop_queue,            \* conveyor.py Store.pop_queue
    push_queue,           \* conveyor.py Store.push_queue
    sched,                \* every event scheduled by succeed(), in scheduling order
    done,                 \* how many events of sched the environment has processed
    err,                  \* the exception that ended the run, or "none"
    asked,                \* the capacity the constructor was called with: <<>> before the call, then <<capacity>>
    worker,               \* test_yield.py Base.worker
    _workerStatus,        \* Base._workerStatus: <<>> while the attribute is not set, then <<map>>, the map a sequence of statuses in insertion order (TRUE is Busy)
    recoverPos,           \* Base.recoverPos
    setupTime,            \* Base.setupTime
    processTime,          \* Base.processTime
    recoveryTime,         \* Base.recoveryTime
    outLinks,             \* Base.outLinks: the links to downstream nodes, in order; <<>> when none was assigned
    avail,                \* per link, checkWorkAvailable() of the node it leads to, as the last round of a send read it
    puts,                 \* per link, whether the last step called put on it
    nodeq,                \* the processes suspended on a timeout, in the order the environment will resume them
    procs,                \* the main processes driving the node: position, row of the source, worker of the context, stage being run (its place in the list of getFuncList, 0 before the first), time of the pending timeout, time the worker was acquired, stages started so far, contexts handed out, sendState of the last send, retry delays of the last send
    script,               \* the script driving a resource: its name, the messages it generates, the delays of its processes
    threads,              \* the processes of the script: position, message index, request waited for, time of the pending timeout
    timers                \* the processes suspended on a timeout, in the order the environment will resume them

vars == <<res, capacity, length, speed, distance, now, reqs, items, processing_queue, ready_queue, put_queue, get_queue, peek_queue, get_triggered_queue, pop_queue, push_queue, sched, done, err, asked, worker, _workerStatus, recoverPos, setupTime, processTime, recoveryTime, outLinks, avail, puts, nodeq, procs, script, threads, timers>>

\* the variables of a node
node_vars == <<worker, _workerStatus, recoverPos, setupTime, processTime, recoveryTime, outLinks, avail, puts, nodeq, procs>>

\* the variables of a script and its processes
script_vars == <<script, threads, timers>>

\* the options of a node
node_config == <<worker, recoverPos, setupTime, processTime, recoveryTime, outLinks>>

\* the variables of a resource
resource_vars == <<capacity, length, speed, distance, reqs, items, processing_queue, ready_queue, put_queue, get_queue, peek_queue, get_triggered_queue, pop_queue, push_queue, sched, done, asked>>

(***************************************************************************)
(* Bounds of the model.                                                    *)
(***************************************************************************)
\* requests issued on a store.py Store in one run
MaxReq == 4
\* largest bounded capacity a store.py Store is constructed with
MaxCap == 2
\* last simulated instant
MaxTime == 1

\* requests issued on a conveyor in one run
MaxConvReq == 3
\* largest bounded capacity a conveyor is constructed with
MaxConvCap == 1
\* requests issued on a conveyor that is only put to, pushed to, popped and
\* waited on (get_triggered)
MaxLineReq == 4

\* main processes driving one node
MaxProc == 2
\* largest number of workers a node is configured with
MaxWorker == 2
\* rows of the source an Order hands out (range(10) in the source)
MaxRows == 2
\* messages a script generates (range(20) in the sources)
MaxMsgs == 3
\* downstream links of a node
MaxLinks == 2
\* retry delays of one send
MaxRetry == 2

\* float('inf'), the default capacity of store.py's Store: larger than any
\* number of items a run can hold
Inf == 1000

Items == {"a", "b"}

\* capacities offered to the constructor of store.py's Store
StoreCapacities == (-1 .. MaxCap) \cup {Inf}

\* configurations offered to the constructor of conveyor.py's Store; -1 is
\* its marker for "unbounded" (capacity) and "no spacing" (distance)
ConvCapacities == -2 .. MaxConvCap
ConvLengths == {1}
ConvSpeeds == {1}
ConvDistances == {-1, 1}

\* worker counts a node is configured with (the `worker` option)
NodeWorkers == 0 .. MaxWorker

\* values of the recoverPos option: the three getFuncList recognizes, and one it does not
RecoverPositions == {"afterLeave", "beforeEnter", "afterProcessed", "unknown"}

\* (setupTime, processTime, recoveryTime) options of a node
NodeTimes == {<<0, 1, 0>>, <<2, 5, 1>>}

\* simulated time of a node is counted in tenths of a time unit: the retry
\* delay of send is timeout(0.1)
Tenth == 10

\* what getAvailableWorker returns when every worker is Busy
None == -1

\* positions asked of conveyor.py's get(item)
Indexes == {0}

(***************************************************************************)
(* Sequence helpers (Python list operations).                              *)
(***************************************************************************)
\* list.pop(i) / del list[i], with i counted from 0: the list without it
RemoveAt(s, i) == [k \in 1 .. Len(s) - 1 |-> IF k <= i THEN s[k] ELSE s[k + 1]]

\* x in list
InSeq(s, x) == \E k \in 1 .. Len(s) : s[k] = x

\* list.index(x), counted from 0 (x is in the list)
IndexOf(s, x) == (CHOOSE k \in 1 .. Len(s) : s[k] = x /\ \A j \in 1 .. k - 1 : s[j] # x) - 1

\* how many times x occurs in the list
Count(s, x) == Cardinality({k \in 1 .. Len(s) : s[k] = x})

(***************************************************************************)
(* The mutable state an operation works on, as one record.                 *)
(***************************************************************************)
Cur == [reqs |-> reqs, items |-> items, processing_queue |-> processing_queue, ready_queue |-> ready_queue, put_queue |-> put_queue, get_queue |-> get_queue, peek_queue |-> peek_queue, get_triggered_queue |-> get_triggered_queue, pop_queue |-> pop_queue, push_queue |-> push_queue, sched |-> sched, err |-> err, ret |-> FALSE]

Commit(S) ==
    /\ reqs' = S.reqs
    /\ items' = S.items
    /\ processing_queue' = S.processing_queue
    /\ ready_queue' = S.ready_queue
    /\ put_queue' = S.put_queue
    /\ get_queue' = S.get_queue
    /\ peek_queue' = S.peek_queue
    /\ get_triggered_queue' = S.get_triggered_queue
    /\ pop_queue' = S.pop_queue
    /\ push_queue' = S.push_queue
    /\ sched' = S.sched
    /\ err' = S.err

\* a new request object: Event.__init__ leaves its value PENDING; `at` is the
\* startTime a conveyor records for the item of an admitted put
NewReq(kind, item, index) == [kind |-> kind, item |-> item, index |-> index, triggered |-> FALSE, value |-> "PENDING", vstart |-> -1, at |-> -1, cancelled |-> FALSE]

\* the queue a request of a kind is appended to
QueueOf(kind) == kind \o "_queue"

\* event.succeed(value): the event becomes triggered and is scheduled;
\* simpy raises RuntimeError for an event that is already triggered
Succeed(S, e, v, vs) ==
    IF S.reqs[e].triggered
    THEN [S EXCEPT !.err = "RuntimeError"]
    ELSE [S EXCEPT !.reqs[e].triggered = TRUE, !.reqs[e].value = v, !.reqs[e].vstart = vs, !.sched = Append(@, e)]

(***************************************************************************)
(* store.py: Store._do_*                                                   *)
(***************************************************************************)
_do_put_off_by_one(S, e) ==
    LET S1 == IF Len(S.items) <= capacity
              THEN Succeed([S EXCEPT !.items = Append(@, S.reqs[e].item)], e, "True", -1)
              ELSE S
    IN [S1 EXCEPT !.ret = FALSE]

_do_put(S, e) ==
    LET S1 == IF Len(S.items) < capacity
              THEN Succeed([S EXCEPT !.items = Append(@, S.reqs[e].item)], e, "True", -1)
              ELSE S
    IN [S1 EXCEPT !.ret = FALSE]

_do_get_lifo(S, e) ==
    LET S1 == IF S.items # <<>>
              THEN Succeed([S EXCEPT !.items = SubSeq(@, 1, Len(@) - 1)], e, S.items[Len(S.items)], -1)
              ELSE S
    IN [S1 EXCEPT !.ret = FALSE]

\* items.pop(0) without the test for an empty list
_do_get_unchecked(S, e) ==
    LET S1 == IF S.items # <<>>
              THEN Succeed([S EXCEPT !.items = Tail(@)], e, Head(S.items), -1)
              ELSE [S EXCEPT !.err = "IndexError"]
    IN [S1 EXCEPT !.ret = FALSE]

_do_get(S, e) ==
    LET S1 == IF S.items # <<>>
              THEN Succeed([S EXCEPT !.items = Tail(@)], e, Head(S.items), -1)
              ELSE S
    IN [S1 EXCEPT !.ret = FALSE]

\* a peek that takes the item out, as get does
_do_peek_pops(S, e) ==
    LET S1 == IF S.items # <<>>
              THEN Succeed([S EXCEPT !.items = Tail(@)], e, Head(S.items), -1)
              ELSE S
    IN [S1 EXCEPT !.ret = FALSE]

_do_peek(S, e) ==
    LET S1 == IF S.items # <<>>
              THEN Succeed(S, e, Head(S.items), -1)
              ELSE S
    IN [S1 EXCEPT !.ret = FALSE]

\* a get_triggered that succeeds while an item is there
_do_get_triggered_nonempty(S, e) ==
    LET S1 == IF S.items # <<>>
              THEN Succeed(S, e, "True", -1)
              ELSE S
    IN [S1 EXCEPT !.ret = FALSE]

_do_get_triggered(S, e) ==
    LET S1 == IF S.items = <<>>
              THEN Succeed(S, e, "True", -1)
              ELSE S
    IN [S1 EXCEPT !.ret = FALSE]

(***************************************************************************)
(* conveyor.py: Store._check_* and Store._do_*.  Durations are kept        *)
(* multiplied by speed (speed > 0), so that length / speed and             *)
(* distance / speed need no fractions: only their sign is ever read.       *)
(***************************************************************************)
\* _get_duration() * speed
_get_duration == length

\* _check_distance() * speed
_check_distance(S) ==
    IF distance = -1 THEN 0
    ELSE IF Len(S.processing_queue) = 0 THEN 0
    ELSE distance - (now - S.processing_queue[Len(S.processing_queue)].startTime) * speed

\* _check_capacity() reads processing_queue[0]: IndexError on an empty list
_check_capacity_raises(S) ==
    /\ capacity # -1
    /\ ~(Len(S.processing_queue) < capacity)
    /\ Len(S.processing_queue) = 0

\* _check_capacity() * speed
_check_capacity(S) ==
    IF capacity = -1 THEN 0
    ELSE IF Len(S.processing_queue) < capacity THEN 0
    ELSE _get_duration - (now - S.processing_queue[1].startTime) * speed

\* the capacity test with <= in place of <
_capacity_available_inclusive(S) ==
    IF capacity = -1 THEN TRUE
    ELSE IF Len(S.processing_queue) <= capacity THEN TRUE
    ELSE FALSE

_capacity_available(S) ==
    IF capacity = -1 THEN TRUE
    ELSE IF Len(S.processing_queue) < capacity THEN TRUE
    ELSE FALSE

\* the three tests of _check_available, in the order `and` evaluates them:
\* "True", "False", or the exception raised on the way
_check_available(S) ==
    IF ~(_check_distance(S) <= 0) THEN "False"
    ELSE IF _check_capacity_raises(S) THEN "IndexError"
    ELSE IF ~(_check_capacity(S) <= 0) THEN "False"
    ELSE IF _capacity_available(S) THEN "True"
    ELSE "False"

Conveyor_do_put(S, e) ==
    LET a == _check_available(S)
        S1 == IF a = "IndexError" THEN [S EXCEPT !.err = "IndexError"]
              ELSE IF a = "True"
              THEN Succeed([S EXCEPT !.processing_queue = Append(@, [data |-> S.reqs[e].item, startTime |-> now]), !.reqs[e].at = now], e, "True", -1)
              ELSE S
    IN [S1 EXCEPT !.ret = FALSE]

\* processing_queue[event.item] raises IndexError past the end of the list;
\* an entry, a non-empty dict, is always true
Conveyor_do_get(S, e) ==
    LET i == S.reqs[e].index
        S1 == IF ~(i < Len(S.processing_queue)) THEN [S EXCEPT !.err = "IndexError"]
              ELSE Succeed(S, e, S.processing_queue[i + 1].data, S.processing_queue[i + 1].startTime)
    IN [S1 EXCEPT !.ret = FALSE]

\* a peek that reads the processing queue
Conveyor_do_peek_reads_processing(S, e) ==
    LET S1 == IF S.processing_queue # <<>>
              THEN Succeed(S, e, S.processing_queue[1].data, -1)
              ELSE S
    IN [S1 EXCEPT !.ret = FALSE]

Conveyor_do_peek(S, e) ==
    LET S1 == IF S.items # <<>>
              THEN Succeed(S, e, Head(S.items), -1)
              ELSE S
    IN [S1 EXCEPT !.ret = FALSE]

Conveyor_do_get_triggered(S, e) ==
    LET a == _check_available(S)
        S1 == IF a = "IndexError" THEN [S EXCEPT !.err = "IndexError"]
              ELSE IF a = "True" THEN Succeed(S, e, "True", -1)
              ELSE S
    IN [S1 EXCEPT !.ret = FALSE]

\* event.succeed(ready_queue.pop(0)) runs first; processing_queue.pop(0)
\* then raises IndexError when the processing queue is empty
_do_pop(S, e) ==
    LET S1 == IF S.ready_queue # <<>>
              THEN LET T == Succeed([S EXCEPT !.ready_queue = Tail(@)], e, Head(S.ready_queue), -1)
                   IN IF T.err # "none" THEN T
                      ELSE IF T.processing_queue = <<>> THEN [T EXCEPT !.err = "IndexError"]
                      ELSE [T EXCEPT !.processing_queue = Tail(@)]
              ELSE S
    IN [S1 EXCEPT !.ret = FALSE]

_do_push(S, e) ==
    LET S1 == Succeed([S EXCEPT !.ready_queue = Append(@, S.reqs[e].item)], e, "True", -1)
    IN [S1 EXCEPT !.ret = FALSE]

\* the _do_* method a trigger pass over queue q calls, by the class of the resource
Do(S, q, e) ==
    IF res = "store"
    THEN CASE q = "put_queue" -> _do_put(S, e)
           [] q = "get_queue" -> _do_get(S, e)
           [] q = "peek_queue" -> _do_peek(S, e)
           [] q = "get_triggered_queue" -> _do_get_triggered(S, e)
    ELSE CASE q = "put_queue" -> Conveyor_do_put(S, e)
           [] q = "get_queue" -> Conveyor_do_get(S, e)
           [] q = "peek_queue" -> Conveyor_do_peek(S, e)
           [] q = "get_triggered_queue" -> Conveyor_do_get_triggered(S, e)
           [] q = "pop_queue" -> _do_pop(S, e)
           [] q = "push_queue" -> _do_push(S, e)

(***************************************************************************)
(* The trigger pass: _trigger_put, _trigger_get, _trigger_peek,            *)
(* _trigger_get_triggered, _trigger_pop and _trigger_push are the same     *)
(* loop, each over its own queue.                                          *)
(***************************************************************************)
\* the loop without its queue.pop(idx): a triggered request stays queued
TriggerPass_no_pop(S, q, idx) ==
    IF S.err # "none" \/ ~(idx < Len(S[q]))
    THEN S
    ELSE Do(S, q, S[q][idx + 1])

\* the loop started at the newest request of the queue
TriggerPass_newest_first(S, q, idx) ==
    IF S.err # "none" \/ S[q] = <<>>
    THEN S
    ELSE LET e == S[q][Len(S[q])]
             S1 == Do(S, q, e)
         IN IF S1.err = "none" /\ S1.reqs[e].triggered
            THEN [S1 EXCEPT ![q] = RemoveAt(@, Len(@) - 1)]
            ELSE S1

RECURSIVE TriggerPass(_, _, _)
TriggerPass(S, q, idx) ==
    IF S.err # "none" \/ ~(idx < Len(S[q]))
    THEN S
    ELSE LET e == S[q][idx + 1]
             S1 == Do(S, q, e)
             proceed == S1.ret
             popped == S1[q][idx + 1]
             S2 == IF S1.err # "none" THEN S1
                   ELSE IF ~S1.reqs[e].triggered THEN S1
                   ELSE IF popped # e
                        THEN [S1 EXCEPT ![q] = RemoveAt(@, idx), !.err = "RuntimeError"]
                        ELSE [S1 EXCEPT ![q] = RemoveAt(@, idx)]
             idx2 == IF ~S1.reqs[e].triggered THEN idx + 1 ELSE idx
         IN IF S2.err # "none" \/ ~proceed
            THEN S2
            ELSE TriggerPass(S2, q, idx2)

_trigger_put(S) == TriggerPass(S, "put_queue", 0)

_trigger_get(S) == TriggerPass(S, "get_queue", 0)

_trigger_peek(S) == TriggerPass(S, "peek_queue", 0)

_trigger_get_triggered(S) == TriggerPass(S, "get_triggered_queue", 0)

_trigger_pop(S) == TriggerPass(S, "pop_queue", 0)

_trigger_push(S) == TriggerPass(S, "push_queue", 0)

(***************************************************************************)
(* Callbacks a request registers in its constructor, in registration order *)
(* (named by the queue whose trigger pass they run).                       *)
(***************************************************************************)
\* a put that registers only the peek pass
Callbacks_put_skips_get(kind) ==
    CASE kind = "put" -> <<"peek_queue">>
      [] kind = "get" -> <<"get_triggered_queue">>
      [] kind = "peek" -> <<>>
      [] kind = "get_triggered" -> <<"put_queue">>

\* a get that registers no callback
Callbacks_get_silent(kind) ==
    CASE kind = "put" -> <<"get_queue", "peek_queue">>
      [] kind = "get" -> <<>>
      [] kind = "peek" -> <<>>
      [] kind = "get_triggered" -> <<"put_queue">>

\* a put that registers the peek pass before the get pass
Callbacks_peek_first(kind) ==
    CASE kind = "put" -> <<"peek_queue", "get_queue">>
      [] kind = "get" -> <<"get_triggered_queue">>
      [] kind = "peek" -> <<>>
      [] kind = "get_triggered" -> <<"put_queue">>

Callbacks(kind) ==
    CASE kind = "put" -> <<"get_queue", "peek_queue">>
      [] kind = "get" -> <<"get_triggered_queue">>
      [] kind = "peek" -> <<>>
      [] kind = "get_triggered" -> <<"put_queue">>

\* a pop that registers no callback
ConveyorCallbacks_pop_silent(kind) ==
    CASE kind = "put" -> <<>>
      [] kind = "get" -> <<>>
      [] kind = "peek" -> <<>>
      [] kind = "get_triggered" -> <<"put_queue">>
      [] kind = "pop" -> <<>>
      [] kind = "push" -> <<"pop_queue">>

ConveyorCallbacks(kind) ==
    CASE kind = "put" -> <<>>
      [] kind = "get" -> <<>>
      [] kind = "peek" -> <<>>
      [] kind = "get_triggered" -> <<"put_queue">>
      [] kind = "pop" -> <<"get_triggered_queue">>
      [] kind = "push" -> <<"pop_queue">>

RECURSIVE RunCallbacks(_, _)
RunCallbacks(S, cbs) ==
    IF cbs = <<>> \/ S.err # "none"
    THEN S
    ELSE RunCallbacks(TriggerPass(S, Head(cbs), 0), Tail(cbs))

(***************************************************************************)
(* Construction.                                                           *)
(***************************************************************************)
Init ==
    /\ res = "none"
    /\ capacity = 0
    /\ length = 0
    /\ speed = 0
    /\ distance = 0
    /\ now = 0
    /\ reqs = <<>>
    /\ items = <<>>
    /\ processing_queue = <<>>
    /\ ready_queue = <<>>
    /\ put_queue = <<>>
    /\ get_queue = <<>>
    /\ peek_queue = <<>>
    /\ get_triggered_queue = <<>>
    /\ pop_queue = <<>>
    /\ push_queue = <<>>
    /\ sched = <<>>
    /\ done = 0
    /\ err = "none"
    /\ asked = <<>>
    /\ worker = 0
    /\ _workerStatus = <<>>
    /\ recoverPos = "afterLeave"
    /\ setupTime = 0
    /\ processTime = 0
    /\ recoveryTime = 0
    /\ outLinks = <<>>
    /\ avail = <<>>
    /\ puts = <<>>
    /\ nodeq = <<>>
    /\ script = [name |-> "none", n |-> 0, period |-> 0, delay |-> 0]
    /\ threads = <<>>
    /\ timers = <<>>
    /\ procs = [p \in 1 .. MaxProc |-> [pc |-> "start", row |-> 0, worker |-> None, stage |-> 0, wake |-> 0, since |-> 0, ran |-> <<>>, handed |-> 0, sendState |-> <<>>, rounds |-> 0]]

\* the constructor with the test capacity < 0
StoreInit_accepts_zero(c) ==
    /\ res = "none"
    /\ err = "none"
    /\ IF c < 0
       THEN /\ err' = "ValueError"
            /\ UNCHANGED <<res, capacity>>
       ELSE /\ res' = "store"
            /\ capacity' = c
            /\ err' = "none"
    /\ asked' = <<c>>
    /\ UNCHANGED <<length, speed, distance, now, reqs, items, processing_queue, ready_queue, put_queue, get_queue, peek_queue, get_triggered_queue, pop_queue, push_queue, sched, done>>
    /\ UNCHANGED <<node_vars, script_vars>>

\* store.py Store.__init__(env, capacity)
StoreInit(c) ==
    /\ res = "none"
    /\ err = "none"
    /\ IF c <= 0
       THEN /\ err' = "ValueError"
            /\ UNCHANGED <<res, capacity>>
       ELSE /\ res' = "store"
            /\ capacity' = c
            /\ err' = "none"
    /\ asked' = <<c>>
    /\ UNCHANGED <<length, speed, distance, now, reqs, items, processing_queue, ready_queue, put_queue, get_queue, peek_queue, get_triggered_queue, pop_queue, push_queue, sched, done>>
    /\ UNCHANGED <<node_vars, script_vars>>

\* conveyor.py Store.__init__(env, capacity, length, speed, ..., distance):
\* every value is stored as given
ConveyorInit(c, l, v, d) ==
    /\ res = "none"
    /\ err = "none"
    /\ res' = "conveyor"
    /\ capacity' = c
    /\ length' = l
    /\ speed' = v
    /\ distance' = d
    /\ asked' = <<c>>
    /\ UNCHANGED <<now, reqs, items, processing_queue, ready_queue, put_queue, get_queue, peek_queue, get_triggered_queue, pop_queue, push_queue, sched, done, err>>
    /\ UNCHANGED <<node_vars, script_vars>>

(***************************************************************************)
(* Requests: each constructor appends the request to its queue and runs    *)
(* the trigger pass of that queue.                                         *)
(***************************************************************************)
Config == <<res, capacity, length, speed, distance, asked>>

Running == res # "none" /\ err = "none"

RequestWithin(bound, kind, item, index) ==
    /\ Running
    /\ Len(reqs) < bound
    /\ LET e == Len(reqs) + 1
           S0 == [Cur EXCEPT !.reqs = Append(@, NewReq(kind, item, index)), ![QueueOf(kind)] = Append(@, e)]
       IN Commit(TriggerPass(S0, QueueOf(kind), 0))
    /\ UNCHANGED <<Config, now, done>>
    /\ UNCHANGED <<node_vars, script_vars>>

Request(kind, item, index) == RequestWithin(IF res = "store" THEN MaxReq ELSE MaxConvReq, kind, item, index)

\* StorePut.__init__ / Put.__init__
Put(item) == Request("put", item, -1)

\* store.py Get.__init__
Get == res = "store" /\ Request("get", "none", -1)

\* conveyor.py StoreGet.__init__(store, item) / Get.__init__
ConveyorGet(index) == res = "conveyor" /\ Request("get", "none", index)

\* conveyor.py Pop.__init__
Pop == res = "conveyor" /\ Request("pop", "none", -1)

\* conveyor.py StorePush.__init__(store, item) / Push.__init__
Push(item) == res = "conveyor" /\ Request("push", item, -1)

\* Peek.__init__
Peek == Request("peek", "none", -1)

\* GetTriggered.__init__
GetTriggered == Request("get_triggered", "none", -1)

\* the requests of a conveyor line (test_queue.py): put and get_triggered by
\* the generator, push by the mover, pop by the popper
LinePut(item) == res = "conveyor" /\ RequestWithin(MaxLineReq, "put", item, -1)

LineGetTriggered == res = "conveyor" /\ RequestWithin(MaxLineReq, "get_triggered", "none", -1)

LinePop == res = "conveyor" /\ RequestWithin(MaxLineReq, "pop", "none", -1)

LinePush(item) == res = "conveyor" /\ RequestWithin(MaxLineReq, "push", item, -1)

\* cancel without the test `if not self.triggered`
Cancel_ignores_triggered(e) ==
    /\ Running
    /\ e \in 1 .. Len(reqs)
    /\ LET q == QueueOf(reqs[e].kind)
       IN IF InSeq(Cur[q], e)
          THEN Commit([Cur EXCEPT ![q] = RemoveAt(@, IndexOf(@, e)), !.reqs[e].cancelled = TRUE])
          ELSE Commit([Cur EXCEPT !.err = "ValueError"])
    /\ UNCHANGED <<Config, now, done>>
    /\ UNCHANGED <<node_vars, script_vars>>

\* Put.cancel / Get.cancel / Peek.cancel / GetTriggered.cancel / Pop.cancel /
\* Push.cancel, also run by __exit__; list.remove raises ValueError for an element that is not there
Cancel(e) ==
    /\ Running
    /\ e \in 1 .. Len(reqs)
    /\ LET q == QueueOf(reqs[e].kind)
       IN IF ~reqs[e].triggered
          THEN IF InSeq(Cur[q], e)
               THEN Commit([Cur EXCEPT ![q] = RemoveAt(@, IndexOf(@, e)), !.reqs[e].cancelled = TRUE])
               ELSE Commit([Cur EXCEPT !.err = "ValueError"])
          ELSE Commit(Cur)
    /\ UNCHANGED <<Config, now, done>>
    /\ UNCHANGED <<node_vars, script_vars>>

\* Environment.step: the next scheduled event is processed, its callbacks run
Step ==
    /\ Running
    /\ done < Len(sched)
    /\ LET e == sched[done + 1]
           cbs == IF res = "store" THEN Callbacks(reqs[e].kind) ELSE ConveyorCallbacks(reqs[e].kind)
       IN Commit(RunCallbacks(Cur, cbs))
    /\ done' = done + 1
    /\ UNCHANGED <<Config, now>>
    /\ UNCHANGED <<node_vars, script_vars>>

\* simulated time advances once every event of the current instant is processed
Tick ==
    /\ Running
    /\ done = Len(sched)
    /\ now < MaxTime
    /\ now' = now + 1
    /\ UNCHANGED <<Config, reqs, items, processing_queue, ready_queue, put_queue, get_queue, peek_queue, get_triggered_queue, pop_queue, push_queue, sched, done, err>>
    /\ UNCHANGED <<node_vars, script_vars>>

Next ==
    \/ \E c \in StoreCapacities : StoreInit(c)
    \/ \E i \in Items : Put(i)
    \/ Get
    \/ Peek
    \/ GetTriggered
    \/ \E e \in 1 .. MaxReq : Cancel(e)
    \/ Step
    \/ Tick

NextConveyor ==
    \/ \E c \in ConvCapacities, l \in ConvLengths, v \in ConvSpeeds, d \in ConvDistances : ConveyorInit(c, l, v, d)
    \/ \E i \in Items : Put(i)
    \/ \E k \in Indexes : ConveyorGet(k)
    \/ Peek
    \/ GetTriggered
    \/ Pop
    \/ \E i \in Items : Push(i)
    \/ \E e \in 1 .. MaxConvReq : Cancel(e)
    \/ Step
    \/ Tick

NextLine ==
    \/ \E c \in ConvCapacities, l \in ConvLengths, v \in ConvSpeeds, d \in ConvDistances : ConveyorInit(c, l, v, d)
    \/ \E i \in Items : LinePut(i)
    \/ LineGetTriggered
    \/ LinePop
    \/ \E i \in Items : LinePush(i)
    \/ Step
    \/ Tick

NextAll ==
    \/ \E c \in StoreCapacities : StoreInit(c)
    \/ \E c \in ConvCapacities, l \in ConvLengths, v \in ConvSpeeds, d \in ConvDistances : ConveyorInit(c, l, v, d)
    \/ \E i \in Items : Put(i)
    \/ Get
    \/ \E k \in Indexes : ConveyorGet(k)
    \/ Peek
    \/ GetTriggered
    \/ Pop
    \/ \E i \in Items : Push(i)
    \/ \E e \in 1 .. MaxReq : Cancel(e)
    \/ Step
    \/ Tick

\* a store.py Store
Spec == Init /\ [][Next]_vars

\* a conveyor.py Store
SpecConveyor == Init /\ [][NextConveyor]_vars

\* a conveyor.py Store used as a line
SpecLine == Init /\ [][NextLine]_vars

\* a resource of either class
SpecAll == Init /\ [][NextAll]_vars

(***************************************************************************)
(* test_yield.py: the worker pool of a node (class Base) and the main       *)
(* processes of an Order driving it.  A worker is named by its position in  *)
(* the map, counted from 0; a status is TRUE for Busy, FALSE for Free.      *)
(***************************************************************************)
\* the default of the workerStatus property with one entry too many
DefaultStatus_one_more(W) == [i \in 1 .. W + 1 |-> FALSE]

\* the default of the workerStatus property: every worker of range(self.worker) Free
DefaultStatus(W) == [i \in 1 .. W |-> FALSE]

\* the workerStatus property: getattr(self, "_workerStatus", default), the
\* default being built anew on every read
workerStatus(ws) == IF ws = <<>> THEN DefaultStatus(worker) ELSE ws[1]

checkWorkAvailable(ws) == ~(\A k \in 1 .. Len(workerStatus(ws)) : workerStatus(ws)[k])

\* self.workerStatus.update({worker: WorkerStatus(not ...)}): it changes the
\* map the property returned, which is the stored one only if one is stored
updateWorkerStatus(ws, w) == IF ws = <<>> THEN ws ELSE <<[ws[1] EXCEPT ![w + 1] = ~@]>>

\* the first worker of the map, in insertion order, that is Free
FirstFree(m) ==
    IF \E k \in 1 .. Len(m) : ~m[k]
    THEN (CHOOSE k \in 1 .. Len(m) : ~m[k] /\ \A j \in 1 .. k - 1 : m[j]) - 1
    ELSE None

\* the worker returned, and the attribute as the call leaves it
getAvailableWorker(ws) ==
    LET w == FirstFree(workerStatus(ws))
    IN [ret |-> w, ws |-> IF w = None THEN ws ELSE updateWorkerStatus(ws, w)]

\* getFuncList with recover always last
getFuncList_recover_last ==
    CASE recoverPos \in {"afterLeave", "beforeEnter", "afterProcessed"} -> <<"setup", "process", "send", "recover">>
      [] OTHER -> <<>>

\* getFuncList: the stages of an item, in order; <<>> stands for the
\* Exception raised on an unrecognized recoverPos
getFuncList ==
    CASE recoverPos = "afterLeave" -> <<"setup", "process", "send", "recover">>
      [] recoverPos = "beforeEnter" -> <<"recover", "setup", "process", "send">>
      [] recoverPos = "afterProcessed" -> <<"setup", "process", "recover", "send">>
      [] OTHER -> <<>>

\* StageTime with recover waiting setupTime
StageTime_recover_waits_setup(f) ==
    CASE f = "setup" -> setupTime * Tenth
      [] f = "process" -> processTime * Tenth
      [] f = "recover" -> setupTime * Tenth

\* the timeout of a stage, in tenths
StageTime(f) ==
    CASE f = "setup" -> setupTime * Tenth
      [] f = "process" -> processTime * Tenth
      [] f = "recover" -> recoveryTime * Tenth

\* SendRound putting to every link, whatever its target says
SendRound_unconditional(X, A) ==
    [X EXCEPT !.puts = [l \in 1 .. Len(outLinks) |-> TRUE],
              !.proc.sendState = [l \in 1 .. Len(outLinks) |-> TRUE]]

\* one round of the loop of send: `for outLink in self.outLinks`, every link
\* whose target has a free worker (A[l]) is put to and marked in sendState
SendRound(X, A) ==
    [X EXCEPT !.puts = [l \in 1 .. Len(outLinks) |-> A[l]],
              !.proc.sendState = [l \in 1 .. Len(outLinks) |-> A[l] \/ @[l]]]

\* the code of main from one point to the next suspension, at time t, on
\* X = the worker-status attribute, the puts made, the process and the error
RECURSIVE RunFrom(_, _, _, _)
RECURSIVE SendLoop(_, _, _)
RECURSIVE OrderGet(_, _, _, _)

\* main from the start of stage k of the item: funcExcutor of each stage up
\* to the first that suspends, then updateWorkerStatus and the next context
RunFrom(X, k, t, A) ==
    IF k > Len(getFuncList)
    THEN OrderGet([X EXCEPT !.ws = updateWorkerStatus(@, X.proc.worker)], X.proc.row + 1, t, A)
    ELSE LET f == getFuncList[k]
             Y == [X EXCEPT !.proc.stage = k, !.proc.ran = Append(@, f)]
         IN IF f # "send"
            THEN [Y EXCEPT !.proc.wake = t + StageTime(f)]
            ELSE IF outLinks = <<>>
                 THEN RunFrom(Y, k + 1, t, A)
                 ELSE SendLoop([Y EXCEPT !.proc.sendState = [l \in 1 .. Len(outLinks) |-> FALSE], !.proc.rounds = 0], t, A)

\* send, from the top of its while loop: a round, then either the end of
\* send or the retry delay
SendLoop(X, t, A) ==
    LET Y == SendRound(X, A)
    IN IF \A l \in 1 .. Len(outLinks) : Y.proc.sendState[l]
       THEN RunFrom(Y, Y.proc.stage + 1, t, A)
       ELSE [Y EXCEPT !.proc.wake = t + 1, !.proc.rounds = @ + 1]

\* Order.get resumed at row r: the loop runs without suspending, so a row
\* met with no worker available is passed over, and so are all rows after
\* it.  With a context in hand main calls getFuncList and starts the first
\* stage.
OrderGet(X, r, t, A) ==
    IF r < MaxRows /\ checkWorkAvailable(X.ws)
    THEN LET g == getAvailableWorker(X.ws)
             Y == [X EXCEPT !.ws = g.ws, !.proc.pc = "run", !.proc.row = r, !.proc.worker = g.ret, !.proc.since = t, !.proc.handed = @ + 1, !.proc.stage = 0]
         IN IF getFuncList = <<>>
            THEN [Y EXCEPT !.err = "Exception"]
            ELSE RunFrom(Y, 1, t, A)
    ELSE [X EXCEPT !.proc.pc = "done", !.proc.worker = None]

\* env.timeout(delay) by process p: the event is queued behind every event
\* that is due no later
Schedule(q, P, p) ==
    LET before == SelectSeq(q, LAMBDA x : P[x].wake <= P[p].wake)
        after == SelectSeq(q, LAMBDA x : P[x].wake > P[p].wake)
    IN before \o <<p>> \o after

\* the state of the node after process p has run to X
CommitNode(X, p, q) ==
    /\ _workerStatus' = X.ws
    /\ puts' = X.puts
    /\ err' = X.err
    /\ procs' = [procs EXCEPT ![p] = X.proc]
    /\ nodeq' = IF X.err = "none" /\ X.proc.pc = "run"
                THEN Schedule(q, [procs EXCEPT ![p] = X.proc], p)
                ELSE q

\* Base.__init__(env, uuid, name, worker=W, recoverPos=r, setupTime=..,
\* processTime=.., recoveryTime=..) and the outLinks setter, with L links
NodeInit(W, r, T, L) ==
    /\ res = "none"
    /\ err = "none"
    /\ res' = "node"
    /\ worker' = W
    /\ recoverPos' = r
    /\ setupTime' = T[1]
    /\ processTime' = T[2]
    /\ recoveryTime' = T[3]
    /\ outLinks' = [l \in 1 .. L |-> l]
    /\ avail' = [l \in 1 .. L |-> TRUE]
    /\ puts' = [l \in 1 .. L |-> FALSE]
    /\ UNCHANGED <<resource_vars, script_vars, now, err, _workerStatus, nodeq, procs>>

\* the workerStatus setter, called before the node runs with the map of
\* all its workers Free
SetWorkerStatus ==
    /\ Running
    /\ res = "node"
    /\ _workerStatus = <<>>
    /\ \A p \in 1 .. MaxProc : procs[p].pc = "start"
    /\ _workerStatus' = <<DefaultStatus(worker)>>
    /\ UNCHANGED <<res, resource_vars, script_vars, now, err, node_config, avail, puts, nodeq, procs>>

\* no process has been resumed from a timeout yet: the environment starts
\* every process before it processes the first timeout
Fresh(p) ==
    \/ procs[p].pc = "start"
    \/ procs[p].pc = "done" /\ procs[p].handed = 0
    \/ procs[p].pc = "run" /\ procs[p].row = 0 /\ procs[p].stage <= 1

\* env.process(node.main()): the processes start in the order they were
\* created, and main runs up to the first suspension
Start(p) ==
    /\ Running
    /\ res = "node"
    /\ procs[p].pc = "start"
    /\ \A x \in 1 .. MaxProc : Fresh(x)
    /\ \A x \in 1 .. p - 1 : procs[x].pc # "start"
    /\ CommitNode(OrderGet([ws |-> _workerStatus, puts |-> [l \in 1 .. Len(outLinks) |-> FALSE], err |-> err, proc |-> procs[p]], 0, now, avail), p, nodeq)
    /\ UNCHANGED <<res, resource_vars, script_vars, now, node_config, avail>>

\* the process suspended in send, on its retry delay
InSend(p) == procs[p].pc = "run" /\ procs[p].stage > 0 /\ getFuncList[procs[p].stage] = "send"

\* the step of p runs a round of send: p is suspended in send, or the
\* stage after the one it is suspended in is send
RunsRound(p) ==
    /\ outLinks # <<>>
    /\ procs[p].stage > 0
    /\ \/ InSend(p)
       \/ procs[p].stage < Len(getFuncList) /\ getFuncList[procs[p].stage + 1] = "send"

\* the process waiting on the next timeout runs to its next suspension, at
\* the time of the timeout; A is what checkWorkAvailable() of the nodes
\* downstream gives in the round of send it runs
ResumeWith(p, A) ==
    /\ now' = procs[p].wake
    /\ avail' = A
    /\ LET X == [ws |-> _workerStatus, puts |-> [l \in 1 .. Len(outLinks) |-> FALSE], err |-> err, proc |-> procs[p]]
       IN CommitNode(IF InSend(p) THEN SendLoop(X, now', A) ELSE RunFrom(X, procs[p].stage + 1, now', A), p, Tail(nodeq))
    /\ UNCHANGED <<res, resource_vars, script_vars, node_config>>

\* the environment processes the next timeout
Resume(p) ==
    /\ Running
    /\ res = "node"
    /\ nodeq # <<>>
    /\ Head(nodeq) = p
    /\ InSend(p) => procs[p].rounds < MaxRetry
    /\ IF RunsRound(p)
       THEN \E A \in [1 .. Len(outLinks) -> BOOLEAN] : ResumeWith(p, A)
       ELSE ResumeWith(p, avail)

NextNode ==
    \/ \E W \in NodeWorkers, r \in RecoverPositions, T \in NodeTimes : NodeInit(W, r, T, 0)
    \/ SetWorkerStatus
    \/ \E p \in 1 .. MaxProc : Start(p)
    \/ \E p \in 1 .. MaxProc : Resume(p)

\* a node without downstream links and its main processes
SpecNode == Init /\ [][NextNode]_vars

\* the recoverPos values getFuncList knows
SendPositions == {"afterLeave", "beforeEnter", "afterProcessed"}

NextSend ==
    \/ \E r \in SendPositions, T \in NodeTimes, L \in 0 .. MaxLinks : NodeInit(1, r, T, L)
    \/ SetWorkerStatus
    \/ Start(1)
    \/ \E p \in 1 .. MaxProc : Resume(p)

\* a node with downstream links and its main processes
SpecSend == Init /\ [][NextSend]_vars

(***************************************************************************)
(* test_station.py and test_queue.py: the processes of a script driving a  *)
(* resource.  A process runs from one yield to the next in one step; the   *)
(* state it runs on is X = the resource, the processes and the timeouts.   *)
(***************************************************************************)
\* the message of round i
Msg(i) == "order: " \o ToString(i)

\* the process env.process(do_move(f"Mover {i}", ...)) creates
Mover(i) == "do_move " \o ToString(i)

\* the periods of message_generator (env.timeout(1) in the sources) and the
\* delay of the other process of the script: the consumer's env.timeout(2),
\* the mover's env.timeout(20)
StationTimes == {<<1, 2>>, <<2, 2>>, <<3, 2>>}

QueueTimes == {<<1, 20>>, <<20, 20>>, <<25, 20>>}

\* a request constructor called by a process: the request is appended to its
\* queue and the trigger pass of the queue runs
Issue(S, kind, item) ==
    LET e == Len(S.reqs) + 1
        S0 == [S EXCEPT !.reqs = Append(@, NewReq(kind, item, -1)), ![QueueOf(kind)] = Append(@, e)]
    IN TriggerPass(S0, QueueOf(kind), 0)

\* yield env.timeout(delay) by process p at time t: the event is queued
\* behind every event that is due no later
Timeout(X, p, delay, t) ==
    LET th == [X.threads EXCEPT ![p].pc = "timeout", ![p].wake = t + delay]
    IN [X EXCEPT !.threads = th,
                 !.timers = SelectSeq(@, LAMBDA x : th[x].wake <= t + delay) \o <<p>> \o SelectSeq(@, LAMBDA x : th[x].wake > t + delay)]

\* yield pipe.<kind>() by process p: the process waits for the event of the
\* request to be processed
Yield(X, p, kind) ==
    LET S1 == Issue(X.S, kind, "none")
    IN [X EXCEPT !.S = S1, !.threads[p].pc = kind, !.threads[p].req = Len(S1.reqs)]

\* out_pipe.put(msg), out_pipe.push(msg): the request is made and its event
\* is not waited for
Call(X, p, kind) == [X EXCEPT !.S = Issue(X.S, kind, Msg(X.threads[p].i))]

\* env.process(do_move(...)) for the message of p
Spawn(X, p) ==
    LET m == Mover(X.threads[p].i)
    IN [X EXCEPT !.threads = [q \in DOMAIN X.threads \cup {m} |-> IF q = m THEN [pc |-> "start", i |-> X.threads[p].i, req |-> 0, wake |-> 0] ELSE X.threads[q]]]

\* message_generator at the end of the body of its for loop: the next
\* round starts with its timeout, or the loop ends
GeneratorNext(X, p, t) ==
    LET Y == [X EXCEPT !.threads[p].i = @ + 1]
    IN IF Y.threads[p].i < script.n
       THEN Timeout(Y, p, script.period, t)
       ELSE [Y EXCEPT !.threads[p].pc = "done"]

\* a statement of a process
Stmt(op, kind) == [op |-> op, kind |-> kind]

\* test_station.py message_generator: the statements from the yield it is
\* resumed at up to its next yield
station_message_generator(X, p) ==
    CASE X.threads[p].pc = "start" -> <<Stmt("for", "first")>>
      [] X.threads[p].pc = "timeout" ->
            IF X.S.items # <<>>
            THEN <<Stmt("yield", "get_triggered")>>
            ELSE <<Stmt("call", "put"), Stmt("for", "next")>>
      [] X.threads[p].pc = "get_triggered" -> <<Stmt("call", "put"), Stmt("for", "next")>>

\* test_station.py message_consumer
message_consumer(X, p) ==
    CASE X.threads[p].pc = "start" -> <<Stmt("yield", "peek")>>
      [] X.threads[p].pc = "peek" -> <<Stmt("timeout", "none")>>
      [] X.threads[p].pc = "timeout" -> <<Stmt("yield", "get")>>
      [] X.threads[p].pc = "get" -> <<Stmt("yield", "peek")>>

\* test_queue.py message_generator: all(out_pipe.processing_queue) is true
\* of the empty list and of any list of entries (non-empty dicts), so the
\* branch with get_triggered is the one taken
queue_message_generator(X, p) ==
    CASE X.threads[p].pc = "start" -> <<Stmt("for", "first")>>
      [] X.threads[p].pc = "timeout" -> <<Stmt("yield", "get_triggered")>>
      [] X.threads[p].pc = "get_triggered" -> <<Stmt("call", "put"), Stmt("spawn", "do_move"), Stmt("for", "next")>>

\* test_queue.py queue_poper
queue_poper(X, p) == <<Stmt("yield", "pop")>>

\* test_queue.py do_move
do_move(X, p) ==
    CASE X.threads[p].pc = "start" -> <<Stmt("timeout", "none")>>
      [] X.threads[p].pc = "timeout" -> <<Stmt("call", "push"), Stmt("return", "none")>>

\* the statements process p runs when it is resumed
Body(X, p) ==
    CASE p = "message_generator" /\ script.name = "test_station" -> station_message_generator(X, p)
      [] p = "message_generator" /\ script.name = "test_queue" -> queue_message_generator(X, p)
      [] p = "message_consumer" -> message_consumer(X, p)
      [] p = "queue_poper" -> queue_poper(X, p)
      [] OTHER -> do_move(X, p)

\* the statements run in order at time t
RECURSIVE Exec(_, _, _, _)
Exec(X, p, stmts, t) ==
    IF stmts = <<>>
    THEN X
    ELSE LET s == Head(stmts)
             Y == CASE s.op = "yield" -> Yield(X, p, s.kind)
                    [] s.op = "call" -> Call(X, p, s.kind)
                    [] s.op = "spawn" -> Spawn(X, p)
                    [] s.op = "timeout" -> Timeout(X, p, script.delay, t)
                    [] s.op = "for" /\ s.kind = "first" -> Timeout(X, p, script.period, t)
                    [] s.op = "for" /\ s.kind = "next" -> GeneratorNext(X, p, t)
                    [] s.op = "return" -> [X EXCEPT !.threads[p].pc = "done"]
         IN Exec(Y, p, Tail(stmts), t)

\* process p runs to its next yield
RunThread(X, p, t) == Exec(X, p, Body(X, p), t)

ScriptCur == [S |-> Cur, threads |-> threads, timers |-> timers]

CommitScript(X) ==
    /\ Commit(X.S)
    /\ threads' = X.threads
    /\ timers' = X.timers

NewThread == [pc |-> "start", i |-> 0, req |-> 0, wake |-> 0]

\* test_station.py: pipe = Store(env, capacity=1) and the two env.process calls
StationInit(n, T) ==
    /\ res = "none"
    /\ err = "none"
    /\ res' = "store"
    /\ capacity' = 1
    /\ asked' = <<1>>
    /\ script' = [name |-> "test_station", n |-> n, period |-> T[1], delay |-> T[2]]
    /\ threads' = [p \in {"message_generator", "message_consumer"} |-> NewThread]
    /\ UNCHANGED <<length, speed, distance, now, reqs, items, processing_queue, ready_queue, put_queue, get_queue, peek_queue, get_triggered_queue, pop_queue, push_queue, sched, done, err, timers>>
    /\ UNCHANGED node_vars

\* test_queue.py: pipe = Store(env, capacity=1, length=10) and the two
\* env.process calls
QueueInit(n, T) ==
    /\ res = "none"
    /\ err = "none"
    /\ res' = "conveyor"
    /\ capacity' = 1
    /\ length' = 10
    /\ speed' = 1
    /\ distance' = -1
    /\ asked' = <<1>>
    /\ script' = [name |-> "test_queue", n |-> n, period |-> T[1], delay |-> T[2]]
    /\ threads' = [p \in {"message_generator", "queue_poper"} |-> NewThread]
    /\ UNCHANGED <<now, reqs, items, processing_queue, ready_queue, put_queue, get_queue, peek_queue, get_triggered_queue, pop_queue, push_queue, sched, done, err, timers>>
    /\ UNCHANGED node_vars

\* processes created and not yet started: their Initialize events are
\* urgent, the environment processes them before any other event
Starting == {p \in DOMAIN threads : threads[p].pc = "start"}

\* the Initialize event of p is processed, in the order of the env.process
\* calls
StartThread(p) ==
    /\ Running
    /\ script.name # "none"
    /\ p \in Starting
    /\ p = "message_generator" \/ "message_generator" \notin Starting
    /\ CommitScript(RunThread(ScriptCur, p, now))
    /\ UNCHANGED <<Config, now, done, script>>
    /\ UNCHANGED node_vars

\* a timeout is the next event: one due now, or the earliest one once
\* every event of the current instant is processed
ScriptTimeout(p) ==
    /\ Running
    /\ script.name # "none"
    /\ Starting = {}
    /\ timers # <<>>
    /\ Head(timers) = p
    /\ threads[p].wake = now \/ done = Len(sched)
    /\ now' = threads[p].wake
    /\ CommitScript(RunThread([ScriptCur EXCEPT !.timers = Tail(@)], p, now'))
    /\ UNCHANGED <<Config, done, script>>
    /\ UNCHANGED node_vars

\* process p waits for the event of request e
Waits(p, e) == threads[p].pc = reqs[e].kind /\ threads[p].req = e

\* Environment.step on the event of a request: the callbacks the request
\* registered run, then the process that yielded the request is resumed
ScriptStep ==
    /\ Running
    /\ script.name # "none"
    /\ Starting = {}
    /\ done < Len(sched)
    /\ ~(timers # <<>> /\ threads[Head(timers)].wake = now)
    /\ LET e == sched[done + 1]
           cbs == IF res = "store" THEN Callbacks(reqs[e].kind) ELSE ConveyorCallbacks(reqs[e].kind)
           X == [ScriptCur EXCEPT !.S = RunCallbacks(Cur, cbs)]
           waiting == {p \in DOMAIN threads : Waits(p, e)}
       IN CommitScript(IF waiting # {} /\ X.S.err = "none" THEN RunThread(X, CHOOSE p \in waiting : TRUE, now) ELSE X)
    /\ done' = done + 1
    /\ UNCHANGED <<Config, now, script>>
    /\ UNCHANGED node_vars

NextStation ==
    \/ \E n \in 1 .. MaxMsgs, T \in StationTimes : StationInit(n, T)
    \/ \E p \in DOMAIN threads : StartThread(p)
    \/ \E p \in DOMAIN threads : ScriptTimeout(p)
    \/ ScriptStep

NextQueue ==
    \/ \E n \in 1 .. MaxMsgs, T \in QueueTimes : QueueInit(n, T)
    \/ \E p \in DOMAIN threads : StartThread(p)
    \/ \E p \in DOMAIN threads : ScriptTimeout(p)
    \/ ScriptStep

\* the processes of test_station.py on a store.py Store
SpecStation == Init /\ [][NextStation]_vars

\* the processes of test_queue.py on a conveyor.py Store
SpecQueue == Init /\ [][NextQueue]_vars

(***************************************************************************)
(* Vocabulary of the properties.                                           *)
(***************************************************************************)
Queues == {"put_queue", "get_queue", "peek_queue", "get_triggered_queue", "pop_queue", "push_queue"}

\* the queue of the resource named q
Q(q) == Cur[q]

\* that queue after the step
QNext(q) == Cur'[q]

Ids == 1 .. Len(reqs)

\* every event of the current instant has been processed
Quiescent == done = Len(sched)

\* put requests in the order they were admitted, get requests in the order
\* they were triggered
Admitted == SelectSeq(sched, LAMBDA e : reqs[e].kind = "put")

Returned == SelectSeq(sched, LAMBDA e : reqs[e].kind = "get")

PutIds == {e \in Ids : reqs[e].kind = "put"}

GetIds == {e \in Ids : reqs[e].kind = "get"}

(***************************************************************************)
(* C1: a store.py Store of capacity C never holds more than C items, and    *)
(* never fewer than 0, whatever puts, gets, peeks, get_triggereds and       *)
(* cancels were issued.                                                     *)
(***************************************************************************)
C1_CapacityBound == res = "store" => (0 <= Len(items) /\ Len(items) <= capacity)

\* a full bounded store with a put left pending, after a get was served
C1_Witness ==
    /\ res = "store"
    /\ Len(items) = capacity
    /\ put_queue # <<>>
    /\ \E e \in GetIds : reqs[e].triggered

(***************************************************************************)
(* C2: Store get is FIFO: the k-th triggered get returns the item of the    *)
(* k-th admitted put, and puts are admitted in the order they were issued.  *)
(***************************************************************************)
C2_Fifo ==
    res = "store" =>
        /\ Len(Returned) <= Len(Admitted)
        /\ \A k \in 1 .. Len(Returned) : reqs[Returned[k]].value = reqs[Admitted[k]].item
        /\ \A j, k \in 1 .. Len(Admitted) : j < k => Admitted[j] < Admitted[k]

\* two gets served with two different items
C2_Witness ==
    /\ res = "store"
    /\ Len(Returned) = 2
    /\ reqs[Returned[1]].value # reqs[Returned[2]].value

(***************************************************************************)
(* C3: on a Store of capacity 1 holding "a" with put("b") pending, a get()  *)
(* returns "a" and the pending put("b") is admitted within the same         *)
(* instant, no further operation being issued: once every event of the      *)
(* instant is processed, "b" is in the store.                               *)
(***************************************************************************)
C3_GetRetriggersPut ==
    (/\ res = "store"
     /\ capacity = 1
     /\ Len(reqs) = 3
     /\ reqs[1].kind = "put" /\ reqs[1].item = "a"
     /\ reqs[2].kind = "put" /\ reqs[2].item = "b"
     /\ reqs[3].kind = "get"
     /\ \A e \in Ids : ~reqs[e].cancelled
     /\ err = "none"
     /\ Quiescent)
    => (/\ reqs[3].value = "a"
        /\ reqs[2].triggered
        /\ items = <<"b">>)

(***************************************************************************)
(* C4: round trip on a bounded Store without cancellation: when N puts      *)
(* were issued and then at least N gets, then, once every event of the      *)
(* instant is processed, every put is admitted and the first N gets have    *)
(* returned the N items, each once, in admission order.                     *)
(***************************************************************************)
C4_RoundTrip ==
    (/\ res = "store"
     /\ capacity # Inf
     /\ err = "none"
     /\ Quiescent
     /\ \A e \in Ids : ~reqs[e].cancelled
     /\ Cardinality(GetIds) >= Cardinality(PutIds)
     /\ \A p \in PutIds, g \in GetIds : p < g)
    => (/\ \A p \in PutIds : reqs[p].triggered
        /\ Len(Returned) >= Cardinality(PutIds)
        /\ \A k \in 1 .. Cardinality(PutIds) : reqs[Returned[k]].value = reqs[Admitted[k]].item)

(***************************************************************************)
(* C5: queue invariant: whenever the trigger passes of an operation have    *)
(* run to completion (no exception escaped), no request left in any queue   *)
(* of the Store or Conveyor is triggered.                                   *)
(***************************************************************************)
C5_QueueInvariant ==
    err = "none" => \A q \in Queues : \A k \in 1 .. Len(Q(q)) : ~reqs[Q(q)[k]].triggered

\* a pass over the get queue has triggered and removed its head and left
\* the next get in the queue
C5_Witness ==
    /\ err = "none"
    /\ get_queue # <<>>
    /\ \E e \in GetIds : reqs[e].triggered /\ e < Head(get_queue)

(***************************************************************************)
(* C6: a pending (untriggered, uncancelled) request is exactly once in the  *)
(* queue of its kind and in no other queue; a triggered request is in no    *)
(* queue.  Stated for a store and for a conveyor of the constructor's       *)
(* default capacity.                                                        *)
(***************************************************************************)
C6_ExactlyOneQueue ==
    (res = "conveyor" => capacity = -1) =>
        \A e \in Ids :
            LET own == QueueOf(reqs[e].kind)
            IN /\ (~reqs[e].triggered /\ ~reqs[e].cancelled) =>
                      /\ Count(Q(own), e) = 1
                      /\ \A q \in Queues \ {own} : Count(Q(q), e) = 0
               /\ reqs[e].triggered => \A q \in Queues : Count(Q(q), e) = 0

(***************************************************************************)
(* Steps, told apart by what they change: a request step creates a         *)
(* request; a cancel step is a step of a constructed resource that creates  *)
(* no request, processes no event and does not advance time.                *)
(***************************************************************************)
RequestStep == Len(reqs') = Len(reqs) + 1

CancelStep == res # "none" /\ res' = res /\ Len(reqs') = Len(reqs) /\ done' = done /\ now' = now

\* request e is waiting in the queue of its kind
Waiting(e) == ~reqs[e].triggered /\ InSeq(Q(QueueOf(reqs[e].kind)), e)

\* the step removes exactly request e from the queue of its kind and changes
\* nothing else of the resource
CancelRemoves(e) ==
    LET own == QueueOf(reqs[e].kind)
    IN /\ Waiting(e)
       /\ QNext(own) = SelectSeq(Q(own), LAMBDA x : x # e)
       /\ \A q \in Queues \ {own} : QNext(q) = Q(q)
       /\ items' = items
       /\ processing_queue' = processing_queue
       /\ ready_queue' = ready_queue
       /\ sched' = sched
       /\ err' = "none"
       /\ reqs'[e].cancelled
       /\ \A x \in Ids \ {e} : reqs'[x] = reqs[x]

(***************************************************************************)
(* C7: cancel removes a request from its queue if and only if it is not     *)
(* yet triggered: cancel of a waiting request removes exactly that request  *)
(* and leaves items and all other queues unchanged; cancel of a triggered   *)
(* request changes nothing (an admitted item stays in the store).           *)
(***************************************************************************)
C7_CancelFrame ==
    (res = "store" /\ err = "none") =>
        \A e \in Ids :
            /\ Waiting(e) =>
                   /\ ENABLED (Cancel(e) /\ CancelRemoves(e))
                   /\ ~ENABLED (Cancel(e) /\ ~CancelRemoves(e))
            /\ reqs[e].triggered =>
                   /\ ENABLED Cancel(e)
                   /\ ~ENABLED (Cancel(e) /\ vars' # vars)

\* a waiting put was cancelled while an admitted item sits in the store
\* and another put still waits
C7_Witness ==
    /\ res = "store"
    /\ err = "none"
    /\ \E e \in Ids : reqs[e].cancelled /\ reqs[e].kind = "put"
    /\ items # <<>>
    /\ put_queue # <<>>

(***************************************************************************)
(* C8: cancel is idempotent: cancelling a request that is already           *)
(* triggered or already cancelled raises no error and changes nothing, so   *)
(* the only steps of cancel are removals of waiting requests.               *)
(***************************************************************************)
C8_CancelIdempotent ==
    [][CancelStep => (err' = "none" /\ \E e \in Ids : Waiting(e) /\ reqs'[e].cancelled)]_vars

(***************************************************************************)
(* C9: an unsatisfiable request is not an error: a get or peek issued on    *)
(* an empty Store, or a put issued on a full Store, raises nothing, stays   *)
(* in its queue untriggered and leaves items unchanged; a waiting request   *)
(* leaves its queue only by being triggered or cancelled, and is triggered  *)
(* only in a step that found the store able to serve it.                    *)
(***************************************************************************)
C9_UnsatisfiablePending ==
    [][res = "store" =>
        /\ RequestStep =>
              LET e == Len(reqs')
                  k == reqs'[e].kind
              IN ((k \in {"get", "peek"} /\ items = <<>>) \/ (k = "put" /\ ~(Len(items) < capacity))) =>
                     /\ err' = "none"
                     /\ ~reqs'[e].triggered
                     /\ Count(QNext(QueueOf(k)), e) = 1
                     /\ items' = items
        /\ \A e \in Ids :
              Waiting(e) =>
                  /\ ~InSeq(QNext(QueueOf(reqs[e].kind)), e) => (reqs'[e].triggered \/ reqs'[e].cancelled)
                  /\ reqs'[e].triggered =>
                         CASE reqs[e].kind \in {"get", "peek"} -> items # <<>>
                           [] reqs[e].kind = "put" -> Len(items) < capacity
                           [] OTHER -> TRUE]_vars

\* a get and a peek wait on an empty store, a put was served before
C9_Witness ==
    /\ res = "store"
    /\ err = "none"
    /\ items = <<>>
    /\ get_queue # <<>>
    /\ peek_queue # <<>>
    /\ \E e \in PutIds : reqs[e].triggered

(***************************************************************************)
(* C10: constructing a store.py Store with capacity <= 0 fails with an      *)
(* error and yields no store (no operation is ever performed on it); with   *)
(* a capacity > 0, or the unbounded default, it yields a store of that      *)
(* capacity.                                                                *)
(***************************************************************************)
C10_ConstructorValidates ==
    asked # <<>> =>
        IF asked[1] <= 0
        THEN res = "none" /\ err = "ValueError" /\ reqs = <<>>
        ELSE res = "store" /\ capacity = asked[1]

\* the constructor was called with capacity 0 and raised
C10_Witness == asked = <<0>> /\ err = "ValueError" /\ res = "none"

(***************************************************************************)
(* Vocabulary of the conveyor properties.                                  *)
(***************************************************************************)
PopIds == {e \in Ids : reqs[e].kind = "pop"}

\* puts the conveyor has admitted
AdmittedPuts == {e \in PutIds : reqs[e].triggered}

\* the request the step creates
NewId == Len(reqs')

\* requests the step triggers
Triggers(e) == reqs'[e].triggered /\ (e \in Ids => ~reqs[e].triggered)

\* the step runs the pop trigger pass on a non-empty pop queue: a pop is
\* requested, or the environment processes a push while a pop waits
PopRuns ==
    \/ RequestStep /\ reqs'[NewId].kind = "pop"
    \/ done' = done + 1 /\ reqs[sched[done + 1]].kind = "push" /\ pop_queue # <<>>

(***************************************************************************)
(* C11: a conveyor constructed with a non-positive bounded capacity (0, or  *)
(* a negative value other than the unbounded marker -1) is a fatal          *)
(* configuration error at construction or at first use: no request is ever  *)
(* accepted on such a conveyor without an error.                            *)
(***************************************************************************)
C11_BadCapacityFatal ==
    (res = "conveyor" /\ capacity # -1 /\ capacity <= 0) => (reqs = <<>> \/ err # "none")

(***************************************************************************)
(* C12: on a conveyor of bounded capacity C the processing queue never      *)
(* holds more than C entries, whatever puts, pushes, pops, gets,            *)
(* get_triggereds and cancels were issued.                                  *)
(***************************************************************************)
C12_ProcessingBound ==
    (res = "conveyor" /\ capacity >= 0) => Len(processing_queue) <= capacity

\* a full conveyor whose oldest item has travelled the whole length, with a
\* put left pending: only the capacity test holds the put back
C12_Witness ==
    /\ res = "conveyor"
    /\ err = "none"
    /\ capacity = 1
    /\ Len(processing_queue) = capacity
    /\ (now - processing_queue[1].startTime) * speed >= length
    /\ put_queue # <<>>

(***************************************************************************)
(* C13: spacing: on a conveyor with distance D (spacing enabled) and speed  *)
(* S, any two admitted puts were admitted at least D / S time units apart,  *)
(* also when the item admitted first has already been popped.               *)
(***************************************************************************)
C13_Spacing ==
    (res = "conveyor" /\ distance # -1) =>
        \A e, f \in AdmittedPuts : e < f => (reqs[f].at - reqs[e].at) * speed >= distance

(***************************************************************************)
(* C14: transport duration: a pop that returns an item the conveyor         *)
(* admitted returns it no earlier than length / speed after its admission:  *)
(* some put of that item was admitted at least that long ago.               *)
(***************************************************************************)
C14_TransportDuration ==
    [][\A p \in 1 .. Len(reqs') :
          (/\ reqs'[p].kind = "pop"
           /\ Triggers(p)
           /\ err' = "none"
           /\ \E e \in AdmittedPuts : reqs[e].item = reqs'[p].value)
          => \E e \in AdmittedPuts : reqs[e].item = reqs'[p].value /\ (now - reqs[e].at) * speed >= length]_vars

(***************************************************************************)
(* C15: a triggered pop returns the oldest ready item, and the processing   *)
(* entry removed with it is the entry of that same item, whatever the       *)
(* order of the puts and of the pushes: stated for a popped item that has   *)
(* an entry in the processing queue.                                        *)
(***************************************************************************)
C15_PopAligned ==
    [][\A p \in 1 .. Len(reqs') :
          (/\ reqs'[p].kind = "pop"
           /\ Triggers(p)
           /\ \E k \in 1 .. Len(processing_queue) : processing_queue[k].data = reqs'[p].value)
          => /\ reqs'[p].value = Head(ready_queue)
             /\ ready_queue' = Tail(ready_queue)
             /\ Head(processing_queue).data = reqs'[p].value
             /\ processing_queue' = Tail(processing_queue)]_vars

(***************************************************************************)
(* C16: a pop attempted while the ready queue has an entry and the          *)
(* processing queue has none ends in a fatal error, and the pop does not    *)
(* succeed: no pop request is triggered by it.                              *)
(***************************************************************************)
C16_PopWithoutEntryFails ==
    [][(res = "conveyor" /\ PopRuns /\ ready_queue # <<>> /\ processing_queue = <<>>)
          => /\ err' # "none"
             /\ \A p \in 1 .. Len(reqs') : reqs'[p].kind = "pop" => ~Triggers(p)]_vars

(***************************************************************************)
(* C17: a conveyor get(index) on an index with no processing entry is "not  *)
(* yet satisfied": it raises nothing and stays pending in the get queue;    *)
(* on an index with an entry it is triggered with that entry and the        *)
(* processing queue is left unchanged.                                      *)
(***************************************************************************)
C17_GetAbsentPending ==
    [][(res = "conveyor" /\ RequestStep /\ reqs'[NewId].kind = "get" /\ get_queue = <<>>)
          => IF reqs'[NewId].index < Len(processing_queue)
             THEN /\ err' = "none"
                  /\ reqs'[NewId].triggered
                  /\ reqs'[NewId].value = processing_queue[reqs'[NewId].index + 1].data
                  /\ processing_queue' = processing_queue
             ELSE /\ err' = "none"
                  /\ ~reqs'[NewId].triggered
                  /\ get_queue' = <<NewId>>
                  /\ processing_queue' = processing_queue]_vars

(***************************************************************************)
(* Vocabulary of the node properties.                                      *)
(***************************************************************************)
\* the worker map as the node shows it
WorkerMap == workerStatus(_workerStatus)

BusyWorkers == {k \in 1 .. Len(WorkerMap) : WorkerMap[k]}

\* main processes that hold a worker: acquisitions not yet released
Holding == {p \in 1 .. MaxProc : procs[p].pc = "run"}

\* the step hands a worker to process p
Acquires(p) == procs'[p].pc = "run" /\ (procs[p].pc = "start" \/ procs'[p].row # procs[p].row)

(***************************************************************************)
(* C18: worker-pool bound: for a node configured with W workers, with any   *)
(* number of main processes driving it, the worker map always has exactly   *)
(* W entries and at most W of them are Busy.                                *)
(***************************************************************************)
C18_WorkerPoolBound ==
    res = "node" => (Len(WorkerMap) = worker /\ Cardinality(BusyWorkers) <= worker)

\* both workers of a node are Busy, held by two processes, one of which has
\* released a worker before
C18_Witness ==
    /\ res = "node"
    /\ worker = 2
    /\ Cardinality(BusyWorkers) = 2
    /\ Cardinality(Holding) = 2
    /\ \E p \in Holding : procs[p].row > 0

(***************************************************************************)
(* C19: getAvailableWorker returns None if and only if all W workers are    *)
(* Busy at the time of the call; in particular, when W acquisitions are     *)
(* outstanding (none released), the next call returns None and              *)
(* checkWorkAvailable returns False.                                        *)
(***************************************************************************)
C19_NoneIffAllBusy ==
    (res = "node" /\ err = "none") =>
        /\ (getAvailableWorker(_workerStatus).ret = None) <=> (Cardinality(BusyWorkers) = worker)
        /\ Cardinality(Holding) >= worker =>
               /\ getAvailableWorker(_workerStatus).ret = None
               /\ ~checkWorkAvailable(_workerStatus)

(***************************************************************************)
(* C20: getAvailableWorker returns the first Free worker in insertion       *)
(* order and flips it to Busy: a worker handed to a process is observed     *)
(* Busy from the acquisition until updateWorkerStatus is applied to it,     *)
(* also on a node whose worker-status map was never assigned.               *)
(***************************************************************************)
C20_AcquiredIsBusy ==
    [][(res' = "node" /\ err' = "none") =>
          \A p \in 1 .. MaxProc :
              procs'[p].pc = "run" =>
                  /\ workerStatus(_workerStatus')[procs'[p].worker + 1]
                  /\ Acquires(p) =>
                         LET before == IF procs[p].pc = "run"
                                       THEN updateWorkerStatus(_workerStatus, procs[p].worker)
                                       ELSE _workerStatus
                         IN procs'[p].worker = FirstFree(workerStatus(before))]_vars

(***************************************************************************)
(* Vocabulary of the trigger-pass properties.                              *)
(***************************************************************************)
\* the step runs the trigger pass of queue q: a request of that queue is
\* created, or the environment processes an event with that pass among its
\* callbacks
PassRuns(q) ==
    \/ RequestStep /\ QueueOf(reqs'[NewId].kind) = q
    \/ /\ done' = done + 1
       /\ LET k == reqs[sched[done + 1]].kind
          IN \E i \in 1 .. Len(Callbacks(k)) : Callbacks(k)[i] = q

\* a request of queue q can be served by the store as the step leaves it
ServableAfter(q) ==
    CASE q = "put_queue" -> Len(items') < capacity
      [] q = "get_queue" -> items' # <<>>
      [] q = "peek_queue" -> items' # <<>>
      [] q = "get_triggered_queue" -> items' = <<>>
      [] OTHER -> FALSE

\* the step is the environment processing event e
Processes(e) == done' = done + 1 /\ sched[done + 1] = e

(***************************************************************************)
(* C27: a trigger pass scans the entire queue: after a pass over a queue    *)
(* of a Store no request that the store can serve is left pending in that   *)
(* queue, not only the head is looked at.                                   *)
(***************************************************************************)
C27_PassScansAll ==
    [][(res = "store" /\ err' = "none") =>
          \A q \in {"put_queue", "get_queue", "peek_queue", "get_triggered_queue"} :
              (PassRuns(q) /\ ServableAfter(q)) => QNext(q) = <<>>]_vars

(***************************************************************************)
(* C28: same-kind requests on one resource are resolved in FIFO order: a    *)
(* request is never triggered while an earlier request of the same kind is  *)
(* still pending (untriggered and uncancelled).                             *)
(***************************************************************************)
C28_SameKindFifo ==
    [][\A f \in 1 .. Len(reqs') :
          Triggers(f) =>
              \A e \in 1 .. f - 1 :
                  reqs[e].kind = reqs'[f].kind => (reqs[e].triggered \/ reqs[e].cancelled)]_vars

\* two gets waited on an empty store when a put came: the older one is
\* served, the newer one still waits
C28_Witness ==
    /\ err = "none"
    /\ get_queue # <<>>
    /\ \E e \in GetIds, p \in PutIds :
           /\ reqs[e].triggered
           /\ e < Head(get_queue)
           /\ Head(get_queue) < p
           /\ reqs[p].triggered

(***************************************************************************)
(* C29: Store peek is non-destructive: a triggered peek returns the head    *)
(* item and leaves items unchanged, so that a get requested next returns    *)
(* that same item; processing a peek event runs no trigger pass: nothing    *)
(* of the store changes, a pending put is not admitted.                     *)
(***************************************************************************)
C29_PeekNonDestructive ==
    [][res = "store" =>
          /\ (RequestStep /\ reqs'[NewId].kind = "peek") =>
                 /\ items' = items
                 /\ reqs'[NewId].triggered => (items # <<>> /\ reqs'[NewId].value = Head(items))
          /\ \A e \in Ids :
                 (reqs[e].kind = "peek" /\ Triggers(e)) => reqs'[e].value = Head(items')
          /\ \A e \in Ids :
                 (reqs[e].kind = "peek" /\ Processes(e)) =>
                     UNCHANGED <<reqs, items, put_queue, get_queue, peek_queue, get_triggered_queue, sched, err>>
          /\ (/\ RequestStep
              /\ reqs'[NewId].kind = "get"
              /\ get_queue = <<>>
              /\ items # <<>>
              /\ \E e \in Ids : reqs[e].kind = "peek" /\ reqs[e].triggered /\ reqs[e].value = Head(items)) =>
                 reqs'[NewId].value = Head(items)]_vars

\* a peek was served and processed while a put waits on the full store,
\* and the item it returned is still the head
C29_Witness ==
    /\ res = "store"
    /\ err = "none"
    /\ put_queue # <<>>
    /\ items # <<>>
    /\ \E k \in 1 .. done : reqs[sched[k]].kind = "peek" /\ reqs[sched[k]].value = Head(items)

(***************************************************************************)
(* C30: a Store peek succeeds once an item is present, for every waiting    *)
(* peek: when a put has been admitted and its callbacks have run, and the   *)
(* store still holds an item, no peek request is left pending.              *)
(***************************************************************************)
C30_AllPeeksServed ==
    [][\A e \in Ids :
          (res = "store" /\ reqs[e].kind = "put" /\ Processes(e) /\ err' = "none" /\ items' # <<>>)
              => peek_queue' = <<>>]_vars

(***************************************************************************)
(* Vocabulary of the node's stages.                                        *)
(***************************************************************************)
\* the step ends the item process p holds: its worker is released
ItemEnds(p) == procs[p].pc = "run" /\ (procs'[p].pc = "done" \/ procs'[p].handed # procs[p].handed)

\* the stage order the recovery-position option stands for
StageOrder ==
    CASE recoverPos = "afterLeave" -> <<"setup", "process", "send", "recover">>
      [] recoverPos = "beforeEnter" -> <<"recover", "setup", "process", "send">>
      [] recoverPos = "afterProcessed" -> <<"setup", "process", "recover", "send">>
      [] OTHER -> <<>>

\* n items' worth of stages
RECURSIVE Repeat(_, _)
Repeat(q, n) == IF n <= 0 THEN <<>> ELSE q \o Repeat(q, n - 1)

(***************************************************************************)
(* C21: the stages a process has started are, item after item, the stages  *)
(* of the order its recovery position stands for, each once: every item    *)
(* released so far has run the four stages in that order and the item in   *)
(* hand has run the first of them up to the current one.                    *)
(***************************************************************************)
C21_StageOrder ==
    (res = "node" /\ err = "none") =>
        \A p \in 1 .. MaxProc :
            /\ procs[p].pc = "run" => procs[p].ran = Repeat(StageOrder, procs[p].handed - 1) \o SubSeq(StageOrder, 1, procs[p].stage)
            /\ procs[p].pc = "done" => procs[p].ran = Repeat(StageOrder, procs[p].handed)

\* a process has run both its items with recovery after processing, through
\* a send that had to retry
C21_Witness ==
    /\ res = "node"
    /\ recoverPos = "afterProcessed"
    /\ Len(outLinks) = MaxLinks
    /\ procs[1].pc = "done"
    /\ procs[1].handed = MaxRows
    /\ procs[1].rounds > 0

(***************************************************************************)
(* C22: on a node whose recovery position is not one of the three          *)
(* recognized values no worker is ever acquired: no process holds a        *)
(* worker, no context was handed out and no worker is Busy.                *)
(***************************************************************************)
C22_ConfigErrorBeforeWork ==
    (res = "node" /\ worker >= 1 /\ recoverPos \notin {"afterLeave", "beforeEnter", "afterProcessed"}) =>
        /\ \A p \in 1 .. MaxProc : procs[p].worker = None /\ procs[p].handed = 0
        /\ BusyWorkers = {}
        /\ (\E p \in 1 .. MaxProc : procs[p].pc # "start") => err = "Exception"

(***************************************************************************)
(* C23: when the send of an item went without a retry delay, the step that *)
(* releases the worker of the item happens at the time the worker was      *)
(* acquired plus setupTime + processTime + recoveryTime; until then, on a  *)
(* node whose worker map was assigned, the worker is Busy.                 *)
(***************************************************************************)
C23_Occupancy ==
    [][\A p \in 1 .. MaxProc :
        /\ (ItemEnds(p) /\ procs'[p].rounds = 0) => now' = procs[p].since + (setupTime + processTime + recoveryTime) * Tenth
        /\ (procs'[p].pc = "run" /\ _workerStatus' # <<>> /\ err' = "none") => workerStatus(_workerStatus')[procs'[p].worker + 1]]_vars

\* the (2, 5, 1) node with links: the first item was released at 8 time
\* units and the second acquired at once
C23_Witness ==
    /\ res = "node"
    /\ setupTime = 2
    /\ outLinks # <<>>
    /\ _workerStatus # <<>>
    /\ procs[1].pc = "run"
    /\ procs[1].handed = 2
    /\ procs[1].since = 8 * Tenth

(***************************************************************************)
(* C24: within one send a link already put to is not put to again: a round *)
(* of the retry loop puts to no link marked in sendState.                  *)
(***************************************************************************)
C24_PutOncePerSend ==
    [][\A p \in 1 .. MaxProc : \A l \in 1 .. Len(outLinks) :
        (InSend(p) /\ nodeq # <<>> /\ Head(nodeq) = p /\ procs[p].sendState[l]) => ~puts'[l]]_vars

\* a send has been called by p
HasSent(p) == InSeq(procs[p].ran, "send")

\* the step runs a round of send for p
Round(p) == RunsRound(p) /\ nodeq # <<>> /\ Head(nodeq) = p /\ procs'[p] # procs[p]

(***************************************************************************)
(* C25: backpressure: a process is past a send it called only with every   *)
(* link marked in sendState, and a link is marked only by a round that     *)
(* puts to it; a round puts to a link only if the target of the link has a *)
(* free worker at that instant; a process with an unsent link stays in     *)
(* send, holding its worker, with its retry timeout pending.               *)
(***************************************************************************)
C25_Backpressure ==
    [][\A p \in 1 .. MaxProc :
        /\ (HasSent(p)' /\ ~InSend(p)') => \A l \in 1 .. Len(outLinks) : procs'[p].sendState[l]
        /\ Round(p) => \A l \in 1 .. Len(outLinks) : procs'[p].sendState[l] => (puts'[l] \/ (InSend(p) /\ procs[p].sendState[l]))
        /\ \A l \in 1 .. Len(outLinks) : puts'[l] => avail'[l]
        /\ InSend(p)' => (procs'[p].worker # None /\ InSeq(nodeq', p) /\ procs'[p].wake = now' + 1)]_vars

\* a send with two links that had to retry has completed
C25_Witness ==
    /\ res = "node"
    /\ Len(outLinks) = MaxLinks
    /\ HasSent(1)
    /\ ~InSend(1)
    /\ procs[1].rounds > 0
    /\ \A l \in 1 .. Len(outLinks) : procs[1].sendState[l]

(***************************************************************************)
(* C26: no item of the source is skipped: a process whose source is        *)
(* exhausted has been handed every item, and a process running an item     *)
(* holds a worker.                                                         *)
(***************************************************************************)
C26_NoItemSkipped ==
    (res = "node" /\ worker >= 1 /\ err = "none") =>
        \A p \in 1 .. MaxProc :
            /\ procs[p].pc = "done" => procs[p].handed = MaxRows
            /\ procs[p].pc = "run" => procs[p].worker # None

(***************************************************************************)
(* Vocabulary of the later store properties.                               *)
(***************************************************************************)
PeekIds == {e \in Ids : reqs[e].kind = "peek"}

\* ids after the step
IdsNext == 1 .. Len(reqs')

PutsInFlight == {k \in done + 1 .. Len(sched) : reqs[sched[k]].kind = "put"}

(***************************************************************************)
(* C32: producer/consumer handshake: a get of a Store is pending next to   *)
(* an item only while the event of an admitted put is still to be          *)
(* processed, and processing that event triggers the head pending get with *)
(* the head item, at the same simulated time and with no request issued.   *)
(***************************************************************************)
C32_Handshake ==
    [][(res = "store" /\ err' = "none") =>
        /\ (get_queue' # <<>> /\ items' # <<>>) => PutsInFlight' # {}
        /\ (done' = done + 1 /\ reqs[sched[done + 1]].kind = "put" /\ get_queue # <<>> /\ items # <<>>) =>
              /\ reqs'[Head(get_queue)].triggered
              /\ reqs'[Head(get_queue)].value = Head(items)
              /\ now' = now
              /\ Len(reqs') = Len(reqs)]_vars

\* a get requested on the empty store, then a put: the put's event has been
\* processed and the get holds the item
C32_Witness ==
    /\ res = "store"
    /\ Len(reqs) >= 2
    /\ reqs[1].kind = "get"
    /\ reqs[2].kind = "put"
    /\ done >= 1
    /\ reqs[1].triggered
    /\ reqs[1].value = reqs[2].item

(***************************************************************************)
(* C35: the get pass runs before the peek pass: when the event of a put is *)
(* processed on a Store holding one item with a get and a peek pending,    *)
(* the head get receives the item, the store is left empty and no peek is  *)
(* triggered, whichever of the two was requested first.                    *)
(***************************************************************************)
C35_GetBeforePeek ==
    [][(/\ res = "store"
        /\ done' = done + 1
        /\ reqs[sched[done + 1]].kind = "put"
        /\ get_queue # <<>>
        /\ peek_queue # <<>>
        /\ Len(items) = 1) =>
            /\ reqs'[Head(get_queue)].triggered
            /\ reqs'[Head(get_queue)].value = Head(items)
            /\ items' = <<>>
            /\ peek_queue' = peek_queue
            /\ \A e \in PeekIds : reqs'[e].triggered = reqs[e].triggered]_vars

\* a peek, then a get, then a put whose event has been processed: the get
\* holds the item and the peek is still pending
C35_Witness ==
    /\ res = "store"
    /\ Len(reqs) >= 3
    /\ reqs[1].kind = "peek"
    /\ reqs[2].kind = "get"
    /\ reqs[3].kind = "put"
    /\ done >= 1
    /\ reqs[2].triggered
    /\ reqs[2].value = reqs[3].item
    /\ ~reqs[1].triggered
    /\ peek_queue = <<1>>

(***************************************************************************)
(* C36: on a conveyor the items list stays empty and no peek is ever       *)
(* triggered: every peek is in peek_queue unless it was cancelled.         *)
(***************************************************************************)
C36_ConveyorPeekPending ==
    res = "conveyor" =>
        /\ items = <<>>
        /\ \A e \in PeekIds :
            /\ ~reqs[e].triggered
            /\ reqs[e].value = "PENDING"
            /\ InSeq(peek_queue, e) <=> ~reqs[e].cancelled

\* a peek requested first is still pending after a put was admitted and a
\* push has filled the ready queue
C36_Witness ==
    /\ res = "conveyor"
    /\ err = "none"
    /\ Len(reqs) >= 3
    /\ reqs[1].kind = "peek"
    /\ peek_queue = <<1>>
    /\ processing_queue # <<>>
    /\ ready_queue # <<>>
    /\ done >= 1

(***************************************************************************)
(* C38: a pop pass of a conveyor that fails on an empty processing queue   *)
(* leaves the resource as it was: the ready queue keeps its items, no pop  *)
(* request becomes triggered, nothing is scheduled and the pop request is  *)
(* in pop_queue.                                                           *)
(***************************************************************************)
C38_FailedPopUnchanged ==
    [][(res = "conveyor" /\ PopRuns /\ err = "none" /\ err' # "none" /\ processing_queue = <<>>) =>
        /\ ready_queue' = ready_queue
        /\ sched' = sched
        /\ \A p \in IdsNext : reqs'[p].kind = "pop" => (~Triggers(p) /\ ((p \notin Ids \/ InSeq(pop_queue, p)) => InSeq(pop_queue', p)))]_vars

(***************************************************************************)
(* C37: on a bounded conveyor a pending put is admitted once a pop has     *)
(* freed a slot: when every event is processed after a pop was served, no  *)
(* put is left pending that the conveyor has room and spacing for.         *)
(***************************************************************************)
C37_PutAdmittedAfterPop ==
    (/\ res = "conveyor"
     /\ err = "none"
     /\ capacity >= 1
     /\ Quiescent
     /\ \E p \in PopIds : reqs[p].triggered)
        => ~(put_queue # <<>> /\ _check_available(Cur) = "True")

(***************************************************************************)
(* Vocabulary of the scripts.                                              *)
(***************************************************************************)
\* no event is left to process: the run of the script has ended
ScriptOver == script.name # "none" /\ Starting = {} /\ timers = <<>> /\ Quiescent

\* pop requests in the order they were triggered
Popped == SelectSeq(sched, LAMBDA e : reqs[e].kind = "pop")

(***************************************************************************)
(* C34: in test_station.py every put of the producer is admitted by the    *)
(* call that issues it, the store never holds more than one item, the      *)
(* consumer's gets return the messages in generation order, and the run    *)
(* ends only with the producer finished and every message returned.        *)
(***************************************************************************)
C34_StationProtocol ==
    script.name = "test_station" =>
        /\ err = "none"
        /\ put_queue = <<>>
        /\ \A e \in PutIds : reqs[e].triggered
        /\ Len(items) <= 1
        /\ \A k \in 1 .. Len(Returned) : reqs[Returned[k]].value = Msg(k - 1)
        /\ ScriptOver => (threads["message_generator"].pc = "done" /\ Len(Returned) = script.n)

\* the run of the script as written (a message per time unit, the consumer
\* working 2) has ended with every message returned
C34_Witness ==
    /\ script.name = "test_station"
    /\ script.n = MaxMsgs
    /\ script.period = 1
    /\ ScriptOver
    /\ Len(Returned) = MaxMsgs

(***************************************************************************)
(* C33: in test_queue.py no process fails, the pops return the messages in *)
(* generation order, the puts are admitted in generation order, and the    *)
(* run ends only with the generator finished and every message admitted    *)
(* and popped.                                                             *)
(***************************************************************************)
C33_QueuePipeline ==
    script.name = "test_queue" =>
        /\ err = "none"
        /\ \A k \in 1 .. Len(Popped) : reqs[Popped[k]].value = Msg(k - 1)
        /\ \A k \in 1 .. Len(Admitted) : reqs[Admitted[k]].item = Msg(k - 1)
        /\ ScriptOver =>
              /\ threads["message_generator"].pc = "done"
              /\ Len(Admitted) = script.n
              /\ Len(Popped) = script.n
              /\ put_queue = <<>>

\* the run of the script as written (a message per time unit, movers of 20
\* time units) has ended with every message popped
C33_Witness ==
    /\ script.name = "test_queue"
    /\ script.n = MaxMsgs
    /\ script.period = 1
    /\ ScriptOver
    /\ Len(Popped) = MaxMsgs

====
